---- MODULE Spec2Model ----
(***************************************************************************)
(* Model of src/app.py: the cached load_data() pipeline (lines 7-56), the  *)
(* top-level script that binds its result (line 59), the sidebar filters   *)
(* (lines 73-98) and the aggregates computed from the filtered view        *)
(* (lines 107, 124-130, 208-210).                                          *)
(*                                                                         *)
(* Three specifications share the variables:                               *)
(*   Spec      one script run through load_data(), statement by statement, *)
(*             for every input drawn in Init, followed by a process        *)
(*             restart and a second run on the same inputs;                *)
(*   SpecCache several sessions calling load_data() through st.cache_data  *)
(*             in one server process;                                      *)
(*   SpecView  the filters and aggregates over a loaded table.             *)
(*                                                                         *)
(* Value encodings.  A missing number (NaN) is the integer NaN, a missing  *)
(* string/object (None/NaN in an object column) is the string NA.  Money   *)
(* and miles are integers in hundredths.  A source timestamp is the tuple  *)
(* <<day, hour, minute, second>>, day counted in January 2024 (day 1 is    *)
(* Monday 2024-01-01, day 0 is Sunday 2023-12-31); a parsed timestamp is   *)
(* the number of seconds since 2024-01-01T00:00:00.  A float quotient is   *)
(* the reduced fraction [n, d].                                            *)
(***************************************************************************)
EXTENDS Integers, Sequences, FiniteSets, TLC

VARIABLES
    src_trips,      \* the remote parquet file: [cols_ok, rows]
    src_zones,      \* the remote zone csv: [has_key, rows]
    pc,             \* position of the script run of Spec / SpecView
    ldf,            \* load_data's local df
    zones,          \* load_data's local zones
    stage,          \* Uninitialized / Loading / Ready / Failed
    cache,          \* st.cache_data's entry for load_data(): [hit, value]
    df,             \* the module-level df of line 59: [bound, table]
    hist,           \* the current run's snapshots of ldf after lines 28, 34, before and
                    \* after line 46, and the stages the load went through
    run,            \* number of the current process run (Spec)
    prev,           \* outcome of the previous process run (Spec)
    spc,            \* SpecCache: position of each session's script run
    lock,           \* SpecCache: holder of the cache's compute lock, 0 if free
    sdf,            \* SpecCache: each session's df
    stats,          \* SpecCache: counts of body executions
    widgets,        \* SpecView: [date_range, hour_range, payment_types]
    filtered_df,    \* SpecView: the filtered view of lines 92-98
    zone_counts,    \* SpecView: lines 124-130
    payment_counts, \* SpecView: lines 208-210
    total_trips     \* SpecView: the Total Trips metric of line 107

loadVars  == <<src_trips, src_zones, pc, ldf, zones, stage, cache, df, hist, run, prev>>
cacheVars == <<spc, lock, sdf, stats>>
viewVars  == <<widgets, filtered_df, zone_counts, payment_counts, total_trips>>
vars      == <<src_trips, src_zones, pc, ldf, zones, stage, cache, df, hist, run, prev,
               spc, lock, sdf, stats,
               widgets, filtered_df, zone_counts, payment_counts, total_trips>>

----------------------------------------------------------------------------
(* Bounds.  SampleSize stands for the 150000 of line 28 and HeadN for the  *)
(* 10 of line 129, both scaled down so that the cases around them (fewer   *)
(* rows than the sample, more groups than the head) are reachable.         *)

SampleSize == 2
MaxBase == 3
HeadN == 2
NSessions == 2
MaxReruns == 2

MaxRows == SampleSize + 1

Seed == 42

NaN == 0 - 9999
NA == "<NA>"

----------------------------------------------------------------------------
(* Sequence helpers *)

RECURSIVE SumSeq(_)
SumSeq(s) == IF s = <<>> THEN 0 ELSE Head(s) + SumSeq(Tail(s))

RECURSIVE Flatten(_)
Flatten(ss) == IF ss = <<>> THEN <<>> ELSE Head(ss) \o Flatten(Tail(ss))

SeqsUpTo(S, lo, hi) == UNION {[1..n -> S] : n \in lo..hi}

Range(s) == {s[i] : i \in DOMAIN s}

----------------------------------------------------------------------------
(* The two remote resources, as fetched *)

Trip(pu, do, dist, fare, total, pay, loc) ==
    [tpep_pickup_datetime |-> pu, tpep_dropoff_datetime |-> do,
     trip_distance |-> dist, fare_amount |-> fare, total_amount |-> total,
     payment_type |-> pay, PULocationID |-> loc]

ZoneRow(id, borough, zone, service) ==
    [LocationID |-> id, Borough |-> borough, Zone |-> zone, service_zone |-> service]

\* Rows a trip file can hold: the four mapped payment codes, code 0, a missing
\* code, a pickup location without zone, a dropoff before the pickup, a pickup
\* before 2024, distances and fares that are zero or missing, and a pickup
\* time that does not parse (hour 24).
TripRowsIn ==
    { Trip(<<15, 8, 30, 0>>,  <<15, 8, 47, 30>>, 250, 1200, 1500, 1, 1),
      Trip(<<16, 23, 50, 0>>, <<16, 23, 40, 0>>, 100, 700, 900, 2, 2),
      Trip(<<0, 23, 59, 59>>, <<1, 0, 10, 0>>,   5, 300, 300, 3, 99),
      Trip(<<3, 12, 0, 0>>,   <<3, 12, 0, 1>>,   80, 450, 450, 4, 264),
      Trip(<<15, 8, 5, 0>>,   <<15, 9, 5, 0>>,   1000, 5200, 7000, 0, 1),
      Trip(<<20, 0, 0, 0>>,   <<20, 0, 20, 0>>,  310, 1500, 1800, NaN, 2),
      Trip(<<15, 8, 30, 0>>,  <<15, 8, 40, 0>>,  NaN, 500, 600, 1, 1),
      Trip(<<15, 8, 30, 0>>,  <<15, 8, 40, 0>>,  120, 0, 0, 2, 1),
      Trip(<<15, 24, 0, 0>>,  <<15, 8, 40, 0>>,  120, 800, 900, 1, 1) }

\* The lookup table with unique keys; its last row has a Zone that read_csv
\* reads as missing ("N/A").
ZonesUnique ==
    << ZoneRow(1, "Manhattan", "Midtown Center", "Yellow Zone"),
       ZoneRow(2, "Queens", "JFK Airport", "Airports"),
       ZoneRow(3, "Manhattan", "Upper East Side North", "Yellow Zone"),
       ZoneRow(264, "Unknown", NA, NA) >>

\* The same table with LocationID 2 listed twice.
ZonesDuplicate ==
    ZonesUnique \o << ZoneRow(2, "Queens", "JFK Airport Annex", "Airports") >>

ZoneFiles ==
    { [has_key |-> TRUE, rows |-> ZonesUnique],
      [has_key |-> TRUE, rows |-> ZonesDuplicate],
      [has_key |-> TRUE, rows |-> <<>>],
      [has_key |-> FALSE, rows |-> ZonesUnique] }

TripFiles ==
    { [cols_ok |-> TRUE, rows |-> r] : r \in SeqsUpTo(TripRowsIn, SampleSize - 1, MaxRows) }
    \cup { [cols_ok |-> FALSE, rows |-> <<>>] }

----------------------------------------------------------------------------
(* load_data(), statement by statement *)

\* line 13: the frame read_parquet returns carries a RangeIndex; the field idx
\* is that index label (kept on the rows after the merge, which renumbers the
\* index, as the row's provenance).
read_parquet(file) ==
    [i \in 1..Len(file.rows) |-> file.rows[i] @@ [idx |-> i]]

\* The generator behind random_state: a linear congruential step stands for
\* the Mersenne twister; what the pipeline uses is that the stream is a
\* function of the seed alone.
NextRand(s) == (s * 75 + 74) % 65537

RECURSIVE Shuffle(_, _, _)
\* Fisher-Yates from the last position down, as RandomState.permutation
Shuffle(p, i, s) ==
    IF i <= 1 THEN p
    ELSE LET r == NextRand(s)
             j == 1 + ((r \div 7) % i)
             q == [p EXCEPT ![i] = p[j], ![j] = p[i]]
         IN  Shuffle(q, i - 1, r)

Permutation(n, seed) == Shuffle([i \in 1..n |-> i], n, seed)

\* line 28: df.sample(n, random_state=seed): without replacement, the first n
\* entries of a seeded permutation of the positions
SampleWith(rows, n, seed) ==
    LET perm == Permutation(Len(rows), seed)
    IN  [k \in 1..n |-> rows[perm[k]]]

\* mutants of sample: no seed given (the stream differs from run to run), and
\* no sampling at all
sample_unseeded(rows) == SampleWith(rows, SampleSize, run)
sample_all(rows) == rows

sample(rows) == SampleWith(rows, SampleSize, Seed)

\* lines 33, 34: x > 0 on a float column; a comparison with NaN is False
Gt0(x) == x # NaN /\ x > 0

CleanDistance(rows) == SelectSeq(rows, LAMBDA r : Gt0(r.trip_distance))
\* mutant of CleanFare: >= in place of >
CleanFareNonNegative(rows) ==
    SelectSeq(rows, LAMBDA r : r.fare_amount # NaN /\ r.fare_amount >= 0)

CleanFare(rows) == SelectSeq(rows, LAMBDA r : Gt0(r.fare_amount))

\* lines 36, 37: pd.to_datetime raises on a value that is no calendar time
Parseable(t) == t[2] \in 0..23 /\ t[3] \in 0..59 /\ t[4] \in 0..59

to_datetime(t) == (t[1] - 1) * 86400 + t[2] * 3600 + t[3] * 60 + t[4]

AllParseable(rows) ==
    \A i \in DOMAIN rows : /\ Parseable(rows[i].tpep_pickup_datetime)
                           /\ Parseable(rows[i].tpep_dropoff_datetime)

ParseTimestamps(rows) ==
    [i \in DOMAIN rows |->
        [rows[i] EXCEPT !.tpep_pickup_datetime = to_datetime(@),
                        !.tpep_dropoff_datetime = to_datetime(@)]]

\* lines 39-44: .dt.hour, .dt.day_name(), .dt.total_seconds() / 60
DayNames == <<"Monday", "Tuesday", "Wednesday", "Thursday", "Friday", "Saturday", "Sunday">>

dt_hour(t) == (t \div 3600) % 24
dt_day_name(t) == DayNames[((t \div 86400) % 7) + 1]
dt_date(t) == (t \div 86400) + 1

RECURSIVE Gcd(_, _)
Gcd(a, b) == IF b = 0 THEN a ELSE Gcd(b, a % b)

Abs(x) == IF x < 0 THEN 0 - x ELSE x

Quotient(a, b) ==
    LET g == Gcd(Abs(a), b) IN [n |-> a \div g, d |-> b \div g]

\* mutant of Derive: the hour taken from the dropoff time
DeriveFromDropoff(rows) ==
    [i \in DOMAIN rows |->
        rows[i] @@
        [pickup_hour |-> dt_hour(rows[i].tpep_dropoff_datetime),
         pickup_day_of_week |-> dt_day_name(rows[i].tpep_pickup_datetime),
         trip_duration_minutes |->
            Quotient(rows[i].tpep_dropoff_datetime - rows[i].tpep_pickup_datetime, 60)]]

Derive(rows) ==
    [i \in DOMAIN rows |->
        rows[i] @@
        [pickup_hour |-> dt_hour(rows[i].tpep_pickup_datetime),
         pickup_day_of_week |-> dt_day_name(rows[i].tpep_pickup_datetime),
         trip_duration_minutes |->
            Quotient(rows[i].tpep_dropoff_datetime - rows[i].tpep_pickup_datetime, 60)]]

\* line 46: merge(how="left"): the left rows in their order, each once per
\* matching right row (in the right's order), or once with missing right
\* columns when none matches
NoZone == [LocationID |-> NaN, Borough |-> NA, Zone |-> NA, service_zone |-> NA]

MatchesOf(l, right) == SelectSeq(right, LAMBDA z : z.LocationID = l.PULocationID)

\* mutant of merge_left: how="inner"
merge_inner(left, right) ==
    Flatten([i \in DOMAIN left |->
        LET m == MatchesOf(left[i], right)
        IN  [k \in DOMAIN m |-> left[i] @@ m[k]]])

merge_left(left, right) ==
    Flatten([i \in DOMAIN left |->
        LET m == MatchesOf(left[i], right)
        IN  IF m = <<>> THEN << left[i] @@ NoZone >>
            ELSE [k \in DOMAIN m |-> left[i] @@ m[k]]])

\* lines 48-54: Series.map(dict): a value that is no key becomes missing
\* mutant of payment_map: a default label for the codes that are no key
payment_map_default(code) ==
    CASE code = 1 -> "Credit Card"
      [] code = 2 -> "Cash"
      [] code = 3 -> "No Charge"
      [] code = 4 -> "Dispute"
      [] OTHER -> "Unknown"

payment_map(code) ==
    CASE code = 1 -> "Credit Card"
      [] code = 2 -> "Cash"
      [] code = 3 -> "No Charge"
      [] code = 4 -> "Dispute"
      [] OTHER -> NA

MapPayment(rows) ==
    [i \in DOMAIN rows |-> [rows[i] EXCEPT !.payment_type = payment_map(@)]]

----------------------------------------------------------------------------
(* Spec: one process, the script run once or twice on the same remote data *)

NoEntry == [hit |-> FALSE, value |-> <<>>]
Unbound == [bound |-> FALSE, table |-> <<>>]
NoHist == [sampled |-> <<>>, cleaned |-> <<>>, left |-> <<>>, merged |-> <<>>, stages |-> <<>>]
NoPrev == [ok |-> FALSE, table |-> <<>>]
NoWidgets == [date_range |-> <<0, 0>>, hour_range |-> <<0, 0>>, payment_types |-> {}]

Sessions == 1..NSessions

CacheIdle ==
    /\ spc = [s \in Sessions |-> "idle"]
    /\ lock = 0
    /\ sdf = [s \in Sessions |-> Unbound]
    /\ stats = [starts |-> 0, successes |-> 0, failures |-> 0, late |-> 0, reruns |-> 0]

ViewIdle ==
    /\ widgets = NoWidgets
    /\ filtered_df = <<>>
    /\ zone_counts = <<>>
    /\ payment_counts = <<>>
    /\ total_trips = 0

Init ==
    /\ src_trips \in TripFiles
    /\ src_zones \in ZoneFiles
    /\ pc = "L59"
    /\ ldf = <<>>
    /\ zones = [has_key |-> FALSE, rows |-> <<>>]
    /\ stage = "Uninitialized"
    /\ cache = NoEntry
    /\ df = Unbound
    /\ hist = NoHist
    /\ run = 1
    /\ prev = NoPrev
    /\ CacheIdle
    /\ ViewIdle

Enter(s) == hist' = [hist EXCEPT !.stages = Append(@, s)]

\* mutant of Raise: the error is swallowed and the frame built so far returned
ReturnPartial ==
    /\ stage' = "Failed"
    /\ Enter("Failed")
    /\ pc' = "L62"
    /\ df' = [bound |-> TRUE, table |-> ldf]
    /\ ldf' = <<>>
    /\ zones' = [has_key |-> FALSE, rows |-> <<>>]
    /\ UNCHANGED cache

\* An exception leaves load_data: its locals are gone, nothing is cached or
\* bound, and the script run ends at line 59 with the error.
Raise ==
    /\ stage' = "Failed"
    /\ Enter("Failed")
    /\ pc' = "raised"
    /\ ldf' = <<>>
    /\ zones' = [has_key |-> FALSE, rows |-> <<>>]
    /\ UNCHANGED <<cache, df>>

\* line 59 through the st.cache_data wrapper of line 7
CallLoadData ==
    /\ pc = "L59"
    /\ IF cache.hit
       THEN /\ df' = [bound |-> TRUE, table |-> cache.value]
            /\ stage' = "Ready"
            /\ Enter("Ready")
            /\ pc' = "L62"
       ELSE /\ stage' = "Loading"
            /\ Enter("Loading")
            /\ pc' = "L13"
            /\ df' = df
    /\ UNCHANGED <<src_trips, src_zones, ldf, zones, cache, run, prev>>
    /\ UNCHANGED <<cacheVars, viewVars>>

\* lines 13-25
ReadParquet ==
    /\ pc = "L13"
    /\ \E fetched \in BOOLEAN :
          IF fetched /\ src_trips.cols_ok
          THEN /\ ldf' = read_parquet(src_trips)
               /\ pc' = "L28"
               /\ UNCHANGED <<zones, stage, cache, df, hist>>
          ELSE Raise
    /\ UNCHANGED <<src_trips, src_zones, run, prev>>
    /\ UNCHANGED <<cacheVars, viewVars>>

\* line 28: sample raises when the frame has fewer rows than asked for
Sample ==
    /\ pc = "L28"
    /\ IF Len(ldf) >= SampleSize
       THEN /\ ldf' = sample(ldf)
            /\ hist' = [hist EXCEPT !.sampled = ldf']
            /\ pc' = "L30"
            /\ UNCHANGED <<zones, stage, cache, df>>
       ELSE Raise
    /\ UNCHANGED <<src_trips, src_zones, run, prev>>
    /\ UNCHANGED <<cacheVars, viewVars>>

\* line 30
ReadCsv ==
    /\ pc = "L30"
    /\ \E fetched \in BOOLEAN :
          IF fetched
          THEN /\ zones' = src_zones
               /\ pc' = "L33"
               /\ UNCHANGED <<ldf, stage, cache, df, hist>>
          ELSE Raise
    /\ UNCHANGED <<src_trips, src_zones, run, prev>>
    /\ UNCHANGED <<cacheVars, viewVars>>

\* line 33
FilterDistance ==
    /\ pc = "L33"
    /\ ldf' = CleanDistance(ldf)
    /\ pc' = "L34"
    /\ UNCHANGED <<src_trips, src_zones, zones, stage, cache, df, hist, run, prev>>
    /\ UNCHANGED <<cacheVars, viewVars>>

\* line 34
FilterFare ==
    /\ pc = "L34"
    /\ ldf' = CleanFare(ldf)
    /\ hist' = [hist EXCEPT !.cleaned = ldf']
    /\ pc' = "L36"
    /\ UNCHANGED <<src_trips, src_zones, zones, stage, cache, df, run, prev>>
    /\ UNCHANGED <<cacheVars, viewVars>>

\* lines 36-37
ToDatetime ==
    /\ pc = "L36"
    /\ IF AllParseable(ldf)
       THEN /\ ldf' = ParseTimestamps(ldf)
            /\ pc' = "L39"
            /\ UNCHANGED <<zones, stage, cache, df, hist>>
       ELSE Raise
    /\ UNCHANGED <<src_trips, src_zones, run, prev>>
    /\ UNCHANGED <<cacheVars, viewVars>>

\* lines 39-44
DeriveColumns ==
    /\ pc = "L39"
    /\ ldf' = Derive(ldf)
    /\ pc' = "L46"
    /\ UNCHANGED <<src_trips, src_zones, zones, stage, cache, df, hist, run, prev>>
    /\ UNCHANGED <<cacheVars, viewVars>>

\* line 46: right_on names a column the zone table must have
Merge ==
    /\ pc = "L46"
    /\ IF zones.has_key
       THEN /\ ldf' = merge_left(ldf, zones.rows)
            /\ hist' = [hist EXCEPT !.left = ldf, !.merged = ldf']
            /\ pc' = "L54"
            /\ UNCHANGED <<zones, stage, cache, df>>
       ELSE Raise
    /\ UNCHANGED <<src_trips, src_zones, run, prev>>
    /\ UNCHANGED <<cacheVars, viewVars>>

\* lines 48-54
MapPaymentType ==
    /\ pc = "L54"
    /\ ldf' = MapPayment(ldf)
    /\ pc' = "L56"
    /\ UNCHANGED <<src_trips, src_zones, zones, stage, cache, df, hist, run, prev>>
    /\ UNCHANGED <<cacheVars, viewVars>>

\* line 56 and the wrapper's write of the result, then the binding of line 59
Return ==
    /\ pc = "L56"
    /\ cache' = [hit |-> TRUE, value |-> ldf]
    /\ df' = [bound |-> TRUE, table |-> ldf]
    /\ stage' = "Ready"
    /\ Enter("Ready")
    /\ pc' = "L62"
    /\ ldf' = <<>>
    /\ zones' = [has_key |-> FALSE, rows |-> <<>>]
    /\ UNCHANGED <<src_trips, src_zones, run, prev>>
    /\ UNCHANGED <<cacheVars, viewVars>>

\* lines 62-218 read df
RestOfScript ==
    /\ pc = "L62"
    /\ df.bound
    /\ pc' = "done"
    /\ UNCHANGED <<src_trips, src_zones, ldf, zones, stage, cache, df, hist, run, prev>>
    /\ UNCHANGED <<cacheVars, viewVars>>

\* The script is run again against the same remote data: in the same process
\* (the cache entry is kept), or in a new process (the in-memory cache starts
\* empty).
NewRun ==
    /\ pc \in {"done", "raised"}
    /\ run < 2
    /\ \E restarted \in BOOLEAN :
          cache' = IF restarted THEN NoEntry ELSE cache
    /\ run' = run + 1
    /\ prev' = [ok |-> df.bound, table |-> df.table]
    /\ df' = Unbound
    /\ stage' = "Uninitialized"
    /\ hist' = NoHist
    /\ pc' = "L59"
    /\ UNCHANGED <<src_trips, src_zones, ldf, zones>>
    /\ UNCHANGED <<cacheVars, viewVars>>

Next ==
    \/ CallLoadData
    \/ ReadParquet
    \/ Sample
    \/ ReadCsv
    \/ FilterDistance
    \/ FilterFare
    \/ ToDatetime
    \/ DeriveColumns
    \/ Merge
    \/ MapPaymentType
    \/ Return
    \/ RestOfScript
    \/ NewRun

Spec == Init /\ [][Next]_vars

----------------------------------------------------------------------------
(* Claims about load_data(), checked under Spec *)

\* The current run executed the body of load_data and it returned.
Computed == df.bound /\ hist.stages = <<"Loading", "Ready">>

Positive(x) == x # NaN /\ x > 0

AfterCleaning == {"L36", "L39", "L46", "L54", "L56"}

\* C1: every row of the table load_data() returns has trip_distance > 0 and
\* fare_amount > 0, and so has every row of the frame at each statement after
\* the two filters (parsing, derivation, join, payment mapping).
C1_CleanedRowsOnly ==
    /\ pc \in AfterCleaning =>
          \A i \in DOMAIN ldf :
              Positive(ldf[i].trip_distance) /\ Positive(ldf[i].fare_amount)
    /\ df.bound =>
          \A i \in DOMAIN df.table :
              Positive(df.table[i].trip_distance) /\ Positive(df.table[i].fare_amount)

\* A load returned rows after the filters dropped at least one sampled row.
C1_Witness ==
    /\ Computed
    /\ df.table # <<>>
    /\ Len(hist.cleaned) < Len(hist.sampled)

ZoneIdsMatching(loc) ==
    {k \in DOMAIN src_zones.rows : src_zones.rows[k].LocationID = loc}

\* C2: the join is left-outer.  Every sampled row that passed the filters is
\* in the join's output and in the returned table with every field it had
\* before the join unchanged (payment_type, which line 54 relabels afterwards,
\* aside), and a row whose PULocationID matches no LocationID is kept with
\* missing Zone, Borough and service_zone.
C2_LeftJoinKeepsEveryRow ==
    Computed =>
       /\ Len(hist.left) = Len(hist.cleaned)
       /\ \A i \in DOMAIN hist.left :
             /\ hist.left[i].idx = hist.cleaned[i].idx
             /\ \E j \in DOMAIN hist.merged :
                   \A f \in DOMAIN hist.left[i] : hist.merged[j][f] = hist.left[i][f]
             /\ \E j \in DOMAIN df.table :
                   /\ \A f \in DOMAIN hist.left[i] \ {"payment_type"} :
                         df.table[j][f] = hist.left[i][f]
                   /\ ZoneIdsMatching(hist.left[i].PULocationID) = {} =>
                         /\ df.table[j].Zone = NA
                         /\ df.table[j].Borough = NA
                         /\ df.table[j].service_zone = NA

\* A returned table holds a row whose pickup location has no zone.
C2_Witness ==
    /\ Computed
    /\ \E j \in DOMAIN df.table :
          /\ ZoneIdsMatching(df.table[j].PULocationID) = {}
          /\ df.table[j].Zone = NA
    /\ src_zones.rows # <<>>

\* C3 as stated: the returned table has at most SampleSize rows and at most as
\* many rows as passed the filters, whatever the zone table.
C3_RowCountNeverGrows ==
    Computed =>
       /\ Len(df.table) <= SampleSize
       /\ Len(df.table) <= Len(hist.cleaned)

RowsAfterJoin(loc) ==
    IF ZoneIdsMatching(loc) = {} THEN 1 ELSE Cardinality(ZoneIdsMatching(loc))

UniqueZoneKeys ==
    \A k, l \in DOMAIN src_zones.rows :
        src_zones.rows[k].LocationID = src_zones.rows[l].LocationID => k = l

\* C3 amended: exactly SampleSize rows are sampled and at most that many pass
\* the filters; the join yields, for each of them, one row per zone row with
\* its LocationID (one row if there is none), so the returned table has as
\* many rows as passed the filters when no LocationID occurs twice in the zone
\* table, and more when a row's PULocationID occurs there more than once.
C3_RowCountAmended ==
    Computed =>
       /\ Len(hist.sampled) = SampleSize
       /\ Len(hist.cleaned) <= SampleSize
       /\ Len(df.table) =
             SumSeq([i \in DOMAIN hist.cleaned |->
                        RowsAfterJoin(hist.cleaned[i].PULocationID)])
       /\ UniqueZoneKeys => Len(df.table) = Len(hist.cleaned)

\* A load from a file with more rows than the sample, joined with a zone table
\* of unique keys, returned as many rows as passed the filters.
C3_Witness ==
    /\ Computed
    /\ Len(src_trips.rows) > SampleSize
    /\ UniqueZoneKeys
    /\ src_zones.rows # <<>>
    /\ Len(df.table) = SampleSize

\* C4: each returned row's payment_type is the label of the code the row had:
\* 1 Credit Card, 2 Cash, 3 No Charge, 4 Dispute, any other code or a missing
\* one the missing label; the mapping drops no row.
C4_PaymentLabels ==
    /\ pc = "L56" => Len(ldf) = Len(hist.merged)
    /\ Computed =>
          /\ Len(df.table) = Len(hist.merged)
          /\ \A j \in DOMAIN df.table :
                LET code == hist.merged[j].payment_type
                    label == df.table[j].payment_type
                IN  /\ code = src_trips.rows[df.table[j].idx].payment_type
                    /\ code = 1 => label = "Credit Card"
                    /\ code = 2 => label = "Cash"
                    /\ code = 3 => label = "No Charge"
                    /\ code = 4 => label = "Dispute"
                    /\ code \notin {1, 2, 3, 4} => label = NA

\* A returned table holds a row of code 0 and a row of a missing code, both
\* with the missing label.
C4_Witness ==
    /\ Computed
    /\ \E j, k \in DOMAIN df.table :
          /\ hist.merged[j].payment_type = 0
          /\ hist.merged[k].payment_type = NaN
          /\ df.table[j].payment_type = NA
          /\ df.table[k].payment_type = NA

\* C7: a load goes Uninitialized -> Loading -> Ready or Failed.  A load in
\* which a fetch fails, a column is missing, the file has fewer rows than the
\* sample, or a kept row's timestamp does not parse ends Failed: the script
\* run stops at line 59 with the error, df is never bound, nothing is cached,
\* the rest of the script does not run, and the load does not start over.
C7_LoadStateMachine ==
    /\ hist.stages \in {<<>>, <<"Loading">>, <<"Loading", "Ready">>,
                        <<"Loading", "Failed">>, <<"Ready">>}
    /\ stage = IF hist.stages = <<>> THEN "Uninitialized"
               ELSE hist.stages[Len(hist.stages)]
    /\ stage = "Failed" => pc = "raised" /\ ~df.bound /\ ~cache.hit
    /\ stage = "Loading" => ~df.bound /\ ~cache.hit
    /\ pc \in {"L62", "done"} => stage = "Ready" /\ df.bound
    /\ Computed =>
          /\ src_trips.cols_ok
          /\ Len(src_trips.rows) >= SampleSize
          /\ src_zones.has_key
          /\ \A i \in DOMAIN hist.cleaned :
                /\ hist.cleaned[i].tpep_pickup_datetime[2] < 24
                /\ hist.cleaned[i].tpep_dropoff_datetime[2] < 24
    /\ cache.hit => \A j \in DOMAIN cache.value :
                       "Zone" \in DOMAIN cache.value[j]

\* A load failed on a timestamp of a row that had passed the filters.
C7_Witness ==
    /\ stage = "Failed"
    /\ pc = "raised"
    /\ \E i \in DOMAIN hist.cleaned : hist.cleaned[i].tpep_pickup_datetime[2] = 24

SecondsOf(t) == ((t[1] - 1) * 24 + t[2]) * 3600 + t[3] * 60 + t[4]

----------------------------------------------------------------------------
(* load_data() as one function of the two fetched files *)

\* lines 33-54 on a sampled frame
Transform(rows, zone_rows) ==
    MapPayment(merge_left(Derive(ParseTimestamps(CleanFare(CleanDistance(rows)))),
                          zone_rows))

\* whether lines 13-54 run without an exception on fetched files
BodyReturns(trips, zfile) ==
    /\ trips.cols_ok
    /\ Len(trips.rows) >= SampleSize
    /\ AllParseable(CleanFare(CleanDistance(sample(read_parquet(trips)))))
    /\ zfile.has_key

load_data(trips, zfile) == Transform(sample(read_parquet(trips)), zfile.rows)

\* The statements of Spec compose to load_data.
StepwiseIsLoadData ==
    Computed => /\ BodyReturns(src_trips, src_zones)
                /\ df.table = load_data(src_trips, src_zones)

----------------------------------------------------------------------------
(* SpecCache: sessions of one server process calling load_data() through   *)
(* st.cache_data (line 7).  The wrapper reads the cache without the lock;  *)
(* on a miss it takes the function's compute lock, reads the cache again,  *)
(* and only on a second miss runs the body, writes the result and releases *)
(* the lock.  An exception in the body releases the lock and writes        *)
(* nothing.                                                                *)

CacheTripFiles ==
    { [cols_ok |-> TRUE,
       rows |-> << Trip(<<15, 8, 30, 0>>, <<15, 8, 47, 30>>, 250, 1200, 1500, 1, 1),
                   Trip(<<16, 23, 50, 0>>, <<16, 23, 40, 0>>, 100, 700, 900, 2, 2),
                   Trip(<<20, 0, 0, 0>>, <<20, 0, 20, 0>>, 310, 1500, 1800, NaN, 99) >>],
      [cols_ok |-> TRUE,
       rows |-> << Trip(<<15, 24, 0, 0>>, <<15, 8, 40, 0>>, 120, 800, 900, 1, 1),
                   Trip(<<15, 8, 30, 0>>, <<15, 8, 47, 30>>, 250, 1200, 1500, 1, 1),
                   Trip(<<15, 9, 30, 0>>, <<15, 9, 47, 30>>, 250, 1200, 1500, 1, 1) >>] }

InBody == {"fetch_trips", "fetch_zones", "transform", "write"}

InitCache ==
    /\ src_trips \in CacheTripFiles
    /\ src_zones = [has_key |-> TRUE, rows |-> ZonesUnique]
    /\ pc = "server"
    /\ ldf = [s \in Sessions |-> <<>>]
    /\ zones = [has_key |-> FALSE, rows |-> <<>>]
    /\ stage = "Uninitialized"
    /\ cache = NoEntry
    /\ df = Unbound
    /\ hist = NoHist
    /\ run = 1
    /\ prev = NoPrev
    /\ CacheIdle
    /\ ViewIdle

CacheFrame == UNCHANGED <<src_trips, src_zones, pc, zones, stage, df, hist, run, prev, viewVars>>

\* a session starts its script run and reaches line 59
StartRun(s) ==
    /\ spc[s] = "idle"
    /\ spc' = [spc EXCEPT ![s] = "lookup"]
    /\ UNCHANGED <<ldf, cache, lock, sdf, stats>>
    /\ CacheFrame

\* the wrapper's first read of the cache, without the lock
Lookup(s) ==
    /\ spc[s] = "lookup"
    /\ IF cache.hit
       THEN /\ sdf' = [sdf EXCEPT ![s] = [bound |-> TRUE, table |-> cache.value]]
            /\ spc' = [spc EXCEPT ![s] = "script"]
       ELSE /\ spc' = [spc EXCEPT ![s] = "acquire"]
            /\ sdf' = sdf
    /\ UNCHANGED <<ldf, cache, lock, stats>>
    /\ CacheFrame

Acquire(s) ==
    /\ spc[s] = "acquire"
    /\ lock = 0
    /\ lock' = s
    /\ spc' = [spc EXCEPT ![s] = "recheck"]
    /\ UNCHANGED <<ldf, cache, sdf, stats>>
    /\ CacheFrame

\* mutant of RecheckHit: the cache is not read again under the lock
RecheckSkipped == FALSE

\* the wrapper's second read of the cache, holding the lock
RecheckHit == cache.hit

Recheck(s) ==
    /\ spc[s] = "recheck"
    /\ IF RecheckHit
       THEN /\ sdf' = [sdf EXCEPT ![s] = [bound |-> TRUE, table |-> cache.value]]
            /\ spc' = [spc EXCEPT ![s] = "script"]
            /\ lock' = 0
            /\ stats' = stats
       ELSE /\ spc' = [spc EXCEPT ![s] = "fetch_trips"]
            /\ stats' = [stats EXCEPT !.starts = @ + 1,
                                      !.late = IF cache.hit THEN @ + 1 ELSE @]
            /\ UNCHANGED <<sdf, lock>>
    /\ UNCHANGED <<ldf, cache>>
    /\ CacheFrame

\* the exception leaves the body, the lock is released, the script run ends
BodyRaises(s) ==
    /\ spc' = [spc EXCEPT ![s] = "failed"]
    /\ lock' = 0
    /\ stats' = [stats EXCEPT !.failures = @ + 1]
    /\ UNCHANGED <<ldf, cache, sdf>>

\* lines 13-25
FetchTrips(s) ==
    /\ spc[s] = "fetch_trips"
    /\ \E fetched \in BOOLEAN :
          IF fetched /\ src_trips.cols_ok
          THEN /\ spc' = [spc EXCEPT ![s] = "fetch_zones"]
               /\ UNCHANGED <<ldf, cache, lock, sdf, stats>>
          ELSE BodyRaises(s)
    /\ CacheFrame

\* line 30 (line 28 is checked with the transform)
FetchZones(s) ==
    /\ spc[s] = "fetch_zones"
    /\ \E fetched \in BOOLEAN :
          IF fetched
          THEN /\ spc' = [spc EXCEPT ![s] = "transform"]
               /\ UNCHANGED <<ldf, cache, lock, sdf, stats>>
          ELSE BodyRaises(s)
    /\ CacheFrame

\* lines 28, 33-56
TransformAndReturn(s) ==
    /\ spc[s] = "transform"
    /\ IF BodyReturns(src_trips, src_zones)
       THEN /\ ldf' = [ldf EXCEPT ![s] = load_data(src_trips, src_zones)]
            /\ spc' = [spc EXCEPT ![s] = "write"]
            /\ UNCHANGED <<cache, lock, sdf, stats>>
       ELSE BodyRaises(s)
    /\ CacheFrame

\* the wrapper writes the result, releases the lock and returns it: line 59
WriteAndReturn(s) ==
    /\ spc[s] = "write"
    /\ cache' = [hit |-> TRUE, value |-> ldf[s]]
    /\ sdf' = [sdf EXCEPT ![s] = [bound |-> TRUE, table |-> ldf[s]]]
    /\ ldf' = [ldf EXCEPT ![s] = <<>>]
    /\ lock' = 0
    /\ stats' = [stats EXCEPT !.successes = @ + 1]
    /\ spc' = [spc EXCEPT ![s] = "script"]
    /\ CacheFrame

\* lines 62-218
ScriptBody(s) ==
    /\ spc[s] = "script"
    /\ sdf[s].bound
    /\ spc' = [spc EXCEPT ![s] = "done"]
    /\ UNCHANGED <<ldf, cache, lock, sdf, stats>>
    /\ CacheFrame

\* a widget interaction or a reload runs the session's script again
Rerun(s) ==
    /\ spc[s] \in {"done", "failed"}
    /\ stats.reruns < MaxReruns
    /\ spc' = [spc EXCEPT ![s] = "lookup"]
    /\ sdf' = [sdf EXCEPT ![s] = Unbound]
    /\ stats' = [stats EXCEPT !.reruns = @ + 1]
    /\ UNCHANGED <<ldf, cache, lock>>
    /\ CacheFrame

NextCache ==
    \E s \in Sessions :
        \/ StartRun(s)
        \/ Lookup(s)
        \/ Acquire(s)
        \/ Recheck(s)
        \/ FetchTrips(s)
        \/ FetchZones(s)
        \/ TransformAndReturn(s)
        \/ WriteAndReturn(s)
        \/ ScriptBody(s)
        \/ Rerun(s)

SpecCache == InitCache /\ [][NextCache]_vars

----------------------------------------------------------------------------
(* Claims about the cache, checked under SpecCache *)

Executing == {s \in Sessions : spc[s] \in InBody}

\* C6 as stated: the body of load_data() executes at most once, and every
\* caller observes the one computed table.
C6_BodyAtMostOnce ==
    /\ stats.starts <= 1
    /\ \A s \in Sessions : sdf[s].bound => cache.hit /\ sdf[s].table = cache.value

\* C6 amended: executions of the body never overlap, at most one of them
\* completes, every caller that returns holds that one table, and no execution
\* starts once a table is cached; an execution that fails caches nothing, and
\* the body then executes again for the next caller, so the number of
\* executions is the number of failed ones plus at most one.
C6_OneSuccessfulLoad ==
    /\ Cardinality(Executing) <= 1
    /\ Executing # {} => lock \in Executing
    /\ stats.successes <= 1
    /\ stats.late = 0
    /\ cache.hit = (stats.successes = 1)
    /\ cache.hit => Executing = {}
    /\ stats.starts = stats.failures + stats.successes + Cardinality(Executing)
    /\ \A s \in Sessions : sdf[s].bound => cache.hit /\ sdf[s].table = cache.value
    /\ \A s, t \in Sessions : sdf[s].bound /\ sdf[t].bound => sdf[s].table = sdf[t].table

\* Two sessions missed the cache together, one ran the body, and both hold the
\* table; a later run of the script was served from the cache.
C6_Witness ==
    /\ stats.starts = 1
    /\ stats.successes = 1
    /\ stats.reruns >= 1
    /\ \A s \in Sessions : spc[s] = "done" /\ sdf[s].bound
    /\ cache.value # <<>>

----------------------------------------------------------------------------
(* SpecView: the script after line 59, over a table load_data() returned   *)

ViewTrips ==
    { Trip(<<15, 8, 30, 0>>,  <<15, 8, 47, 30>>, 250, 1200, 1500, 1, 1),
      Trip(<<15, 8, 45, 0>>,  <<15, 9, 0, 0>>,   90, 600, 800, 2, 1),
      Trip(<<16, 23, 50, 0>>, <<16, 23, 40, 0>>, 100, 700, 900, 2, 2),
      Trip(<<15, 0, 10, 0>>,  <<15, 0, 30, 0>>,  400, 2000, 2500, 1, 3),
      Trip(<<0, 23, 59, 59>>, <<1, 0, 10, 0>>,   5, 300, 300, 0, 99),
      Trip(<<16, 8, 0, 0>>,   <<16, 8, 20, 0>>,  310, 1500, 1800, NaN, 264) }

\* The tables load_data() returns for trip files of 1..MaxBase such rows
\* sampled whole, joined with the zone table of unique keys.
ViewTables ==
    { Transform(read_parquet([cols_ok |-> TRUE, rows |-> r]), ZonesUnique) :
        r \in SeqsUpTo(ViewTrips, 1, MaxBase) }

InitView ==
    /\ src_trips = [cols_ok |-> TRUE, rows |-> <<>>]
    /\ src_zones = [has_key |-> TRUE, rows |-> ZonesUnique]
    /\ \E t \in ViewTables :
          /\ cache = [hit |-> TRUE, value |-> t]
          /\ df = [bound |-> TRUE, table |-> t]
    /\ pc = "L73"
    /\ ldf = <<>>
    /\ zones = [has_key |-> FALSE, rows |-> <<>>]
    /\ stage = "Ready"
    /\ hist = NoHist
    /\ run = 1
    /\ prev = NoPrev
    /\ CacheIdle
    /\ ViewIdle

ViewFrame ==
    UNCHANGED <<src_trips, src_zones, ldf, zones, stage, cache, hist, run, prev, cacheVars>>

SetMin(S) == CHOOSE x \in S : \A y \in S : x <= y
SetMax(S) == CHOOSE x \in S : \A y \in S : x >= y

\* lines 73-74
Dates(table) == {dt_date(table[i].tpep_pickup_datetime) : i \in DOMAIN table}
min_date(table) == SetMin(Dates(table))
max_date(table) == SetMax(Dates(table))

\* lines 87-88: unique() lists the missing label too
unique(table) == {table[i].payment_type : i \in DOMAIN table}

\* The ranges the date picker is tried with: the default, and the single days
\* at both ends.
DateRanges(table) ==
    { <<min_date(table), max_date(table)>>,
      <<min_date(table), min_date(table)>>,
      <<max_date(table), max_date(table)>> }

\* The ranges the hour slider is tried with: the default and two inner ones.
HourRanges == { <<0, 23>>, <<8, 8>>, <<0, 7>> }

\* lines 73-89: the user's selection in the three widgets
Sidebar ==
    /\ pc = "L73"
    /\ \E d \in DateRanges(df.table), h \in HourRanges, p \in SUBSET unique(df.table) :
          widgets' = [date_range |-> d, hour_range |-> h, payment_types |-> p]
    /\ pc' = "L92"
    /\ UNCHANGED <<df, filtered_df, zone_counts, payment_counts, total_trips>>
    /\ ViewFrame

\* mutant of isin: a missing value matches nothing, as under ==
isin_no_missing(v, values) == v # NA /\ v \in values

\* line 97: Series.isin matches a missing value against a missing value
isin(v, values) == v \in values

\* lines 92-98
Keep(r, w) ==
    /\ dt_date(r.tpep_pickup_datetime) >= w.date_range[1]
    /\ dt_date(r.tpep_pickup_datetime) <= w.date_range[2]
    /\ r.pickup_hour >= w.hour_range[1]
    /\ r.pickup_hour <= w.hour_range[2]
    /\ isin(r.payment_type, w.payment_types)

FilterData ==
    /\ pc = "L92"
    /\ filtered_df' = SelectSeq(df.table, LAMBDA r : Keep(r, widgets))
    /\ pc' = "L107"
    /\ UNCHANGED <<df, widgets, zone_counts, payment_counts, total_trips>>
    /\ ViewFrame

\* line 107
TotalTrips ==
    /\ pc = "L107"
    /\ total_trips' = Len(filtered_df)
    /\ pc' = "L124"
    /\ UNCHANGED <<df, widgets, filtered_df, zone_counts, payment_counts>>
    /\ ViewFrame

CountWhere(table, col, v) == Cardinality({i \in DOMAIN table : table[i][col] = v})

\* mutant of GroupSizes: dropna=False
GroupSizesKeepMissing(table, col) ==
    { [key |-> v, n |-> CountWhere(table, col, v)] :
        v \in {table[i][col] : i \in DOMAIN table} }

\* groupby(col).size() and value_counts(): one entry per value of the column,
\* the missing value left out (dropna=True)
GroupSizes(table, col) ==
    { [key |-> v, n |-> CountWhere(table, col, v)] :
        v \in {table[i][col] : i \in DOMAIN table} \ {NA} }

\* sort_values(ascending=False): the default sort is not stable, so entries of
\* equal count come in any order
SortedDescending(S) ==
    { q \in [1..Cardinality(S) -> S] :
        /\ \A i, j \in DOMAIN q : i # j => q[i] # q[j]
        /\ \A i, j \in DOMAIN q : i < j => q[i].n >= q[j].n }

head(q, k) == SubSeq(q, 1, IF Len(q) < k THEN Len(q) ELSE k)

\* lines 124-130
ZoneCounts ==
    /\ pc = "L124"
    /\ \E q \in SortedDescending(GroupSizes(filtered_df, "Zone")) :
          zone_counts' = [i \in DOMAIN head(q, HeadN) |->
                             [Zone |-> head(q, HeadN)[i].key, trips |-> head(q, HeadN)[i].n]]
    /\ pc' = "L208"
    /\ UNCHANGED <<df, widgets, filtered_df, payment_counts, total_trips>>
    /\ ViewFrame

\* lines 208-210
PaymentCounts ==
    /\ pc = "L208"
    /\ \E q \in SortedDescending(GroupSizes(filtered_df, "payment_type")) :
          payment_counts' = [i \in DOMAIN q |->
                                [payment_type |-> q[i].key, count |-> q[i].n]]
    /\ pc' = "done"
    /\ UNCHANGED <<df, widgets, filtered_df, zone_counts, total_trips>>
    /\ ViewFrame

\* a widget interaction runs the script again; df comes from the cache
Interact ==
    /\ pc = "done"
    /\ pc' = "L73"
    /\ df' = [bound |-> TRUE, table |-> cache.value]
    /\ widgets' = NoWidgets
    /\ filtered_df' = <<>>
    /\ zone_counts' = <<>>
    /\ payment_counts' = <<>>
    /\ total_trips' = 0
    /\ ViewFrame

NextView ==
    \/ Sidebar
    \/ FilterData
    \/ TotalTrips
    \/ ZoneCounts
    \/ PaymentCounts
    \/ Interact

SpecView == InitView /\ [][NextView]_vars

----------------------------------------------------------------------------
(* Claims about the filtered view, checked under SpecView *)

Filtered == pc \in {"L107", "L124", "L208", "done"}

ZoneTrips == SumSeq([i \in DOMAIN zone_counts |-> zone_counts[i].trips])
PaymentTrips == SumSeq([i \in DOMAIN payment_counts |-> payment_counts[i].count])

RowsWith(col, S) == {j \in DOMAIN filtered_df : filtered_df[j][col] \in S}
RowsKnown(col) == {j \in DOMAIN filtered_df : filtered_df[j][col] # NA}
KnownValues(col) == {filtered_df[j][col] : j \in RowsKnown(col)}

\* C5 as stated: the per-zone counts and the per-payment-type counts computed
\* from the filtered view each sum to the number of rows of the view.
C5_CountsSumToTotal ==
    pc = "done" =>
       /\ total_trips = Len(filtered_df)
       /\ ZoneTrips = total_trips
       /\ PaymentTrips = total_trips

\* C5 amended: the Total Trips metric is the number of rows of the view; the
\* per-payment-type counts sum to the number of view rows whose payment label
\* is not missing; the per-zone counts list HeadN zones at most, none of them
\* missing, each with the number of view rows of that zone, no listed zone
\* having fewer rows than an unlisted one, so they sum to the number of view
\* rows whose Zone is not missing when these rows have at most HeadN distinct
\* zones, and to less otherwise.
C5_CountsAmended ==
    pc = "done" =>
       /\ total_trips = Len(filtered_df)
       /\ PaymentTrips = Cardinality(RowsKnown("payment_type"))
       /\ {payment_counts[i].payment_type : i \in DOMAIN payment_counts}
             = KnownValues("payment_type")
       /\ Len(zone_counts) <= HeadN
       /\ \A i \in DOMAIN zone_counts :
             /\ zone_counts[i].Zone # NA
             /\ zone_counts[i].trips = Cardinality(RowsWith("Zone", {zone_counts[i].Zone}))
             /\ \A z \in KnownValues("Zone") :
                   (\A k \in DOMAIN zone_counts : zone_counts[k].Zone # z)
                      => Cardinality(RowsWith("Zone", {z})) <= zone_counts[i].trips
       /\ ZoneTrips =
             Cardinality(RowsWith("Zone", {zone_counts[i].Zone : i \in DOMAIN zone_counts}))
       /\ ZoneTrips <= Cardinality(RowsKnown("Zone"))
       /\ Cardinality(KnownValues("Zone")) <= HeadN
             => ZoneTrips = Cardinality(RowsKnown("Zone"))
       /\ Cardinality(KnownValues("Zone")) > HeadN
             => ZoneTrips < Cardinality(RowsKnown("Zone"))

\* A view of several rows, none with a missing zone or label and with no more
\* zones than the head keeps: both sums equal the total.
C5_Witness ==
    /\ pc = "done"
    /\ total_trips >= 2
    /\ Cardinality(KnownValues("Zone")) = 2
    /\ ZoneTrips = total_trips
    /\ PaymentTrips = total_trips

\* The default selection of the three widgets.
DefaultSelection ==
    /\ widgets.date_range = <<min_date(df.table), max_date(df.table)>>
    /\ widgets.hour_range = <<0, 23>>
    /\ widgets.payment_types = unique(df.table)

\* C10: the filtered view is exactly the base rows, in their order, whose
\* pickup date is in [d0, d1], whose pickup_hour is in [h0, h1] and whose
\* payment_type is in P, a row with a missing label being kept only when the
\* missing option is in P; the base table is left as loaded; under the default
\* selection the view is the whole base table.
C10_FilteredView ==
    /\ df.table = cache.value
    /\ Filtered =>
          /\ filtered_df =
                SelectSeq(df.table, LAMBDA r :
                    LET day == (r.tpep_pickup_datetime \div 86400) + 1
                    IN  /\ widgets.date_range[1] <= day
                        /\ day <= widgets.date_range[2]
                        /\ widgets.hour_range[1] <= r.pickup_hour
                        /\ r.pickup_hour <= widgets.hour_range[2]
                        /\ \/ r.payment_type # NA /\ r.payment_type \in widgets.payment_types
                           \/ r.payment_type = NA /\ NA \in widgets.payment_types)
          /\ DefaultSelection => filtered_df = df.table

\* The missing option was selected alone and the view holds exactly the rows
\* of missing label, fewer than the base table.
C10_Witness ==
    /\ Filtered
    /\ widgets.payment_types = {NA}
    /\ filtered_df # <<>>
    /\ Len(filtered_df) < Len(df.table)
    /\ \A j \in DOMAIN filtered_df : filtered_df[j].payment_type = NA

====
